---- MODULE Spec2Model ----
(***************************************************************************)
(* Model of the pitchhub-dashboard aggregation / ranking pipeline.         *)
(*                                                                         *)
(*   - TopCompaniesByScoreTable (components/TopCompaniesByScoreTable.tsx): *)
(*     the aggregation effect, handleSort and getSortedCompanies;          *)
(*   - CompanyDetail (the profile computation of the detail view);         *)
(*   - App (App.tsx): the organizations effect, the companies/investments  *)
(*     effect, fetchInvestments and handleOrgChange, with their awaits as  *)
(*     in-flight tasks.                                                    *)
(*                                                                         *)
(* Strings are sequences of characters so that trim() and toLowerCase()    *)
(* are computed; a character is a one-element token ("CompanyA" stands for *)
(* a run of non-blank, non-digit characters).  JavaScript numbers are      *)
(* modelled as exact non-negative rationals [num, den] in lowest terms.    *)
(***************************************************************************)
EXTENDS Integers, Sequences, FiniteSets, TLC

VARIABLES
    investments,      \* InvestmentData[]: App state, and the table's prop
    rankedCompanies,  \* TopCompaniesByScoreTable state (unsorted summaries)
    sortColumn,       \* TopCompaniesByScoreTable state
    sortDirection,    \* TopCompaniesByScoreTable state
    lastClick,        \* history: the column of the latest header click
    organizations,    \* App state: Organization[]
    selectedOrgId,    \* App state: '' when none is selected
    selectedOrgData,  \* App state: <<>> for null, <<org>> otherwise
    companies,        \* App state: Company[]
    loading,          \* App state
    error,            \* App state: "null" or the message
    tasks,            \* the async functions suspended at an await
    nextTask,         \* history: number of async functions started so far
    selections,       \* history: number of organization selections so far
    loadsStarted,     \* history: number of fetchCompaniesAndInvestments calls
    lastDone,         \* history: <<>> or <<the fetchInvestments call that ended last>>
    tableFailure,     \* "none", or the error the aggregation effect threw
    companyNameParam, \* CompanyDetail: the companyName route parameter
    detailView        \* CompanyDetail: what the latest render returned

tableVars == <<rankedCompanies, sortColumn, sortDirection, lastClick, tableFailure>>

detailVars == <<companyNameParam, detailView>>

appVars == <<organizations, selectedOrgId, selectedOrgData, companies, loading,
             error, tasks, nextTask, selections, loadsStarted, lastDone>>

-----------------------------------------------------------------------------
(* Bounds and input universes                                              *)

MaxRecords == 3

\* async functions (fetches) started in one run of the App
MaxTasks == 7

Criteria == {"Team", "Market"}

CompanyA      == <<"CompanyA">>
CompanyAPad   == <<" ", "CompanyA">>
CompanyB      == <<"CompanyB">>
Company7      == <<"7">>
Company10     == <<"1", "0">>

CompanyNames == {CompanyA, CompanyAPad, CompanyB, Company7, Company10}

\* Score mappings (scores: Criterion -> number) of the records of the model.
Scores86 == [c \in {"Team", "Market"} |-> IF c = "Team" THEN 8 ELSE 6]
Scores68 == [c \in {"Team", "Market"} |-> IF c = "Team" THEN 6 ELSE 8]
Scores99 == [c \in {"Team", "Market"} |-> 9]
ScoresTeamOnly   == [c \in {"Team"} |-> 10]
ScoresMarketOnly == [c \in {"Market"} |-> 8]
ScoresNone == [c \in {} |-> 0]
Scores04 == [c \in {"Team", "Market"} |-> IF c = "Team" THEN 0 ELSE 4]

Rec(name, scores) == [companyName |-> name, scores |-> scores]

\* The evaluation records the collections of the model are built from.
TableRecords ==
    { Rec(CompanyA, Scores86), Rec(CompanyA, Scores68),
      Rec(CompanyA, ScoresTeamOnly), Rec(CompanyA, ScoresMarketOnly),
      Rec(CompanyAPad, Scores86),
      Rec(CompanyB, Scores99), Rec(CompanyB, ScoresNone),
      Rec(Company7, Scores99), Rec(Company7, Scores86),
      Rec(Company10, Scores99) }

-----------------------------------------------------------------------------
(* Strings                                                                 *)

Digits == {"0", "1", "2", "3", "4", "5", "6", "7", "8", "9"}

DigitValue(c) ==
    CASE c = "0" -> 0 [] c = "1" -> 1 [] c = "2" -> 2 [] c = "3" -> 3
      [] c = "4" -> 4 [] c = "5" -> 5 [] c = "6" -> 6 [] c = "7" -> 7
      [] c = "8" -> 8 [] c = "9" -> 9

IsWhiteSpace(c) == c = " "

RECURSIVE TrimStart(_)
TrimStart(s) ==
    IF s # <<>> /\ IsWhiteSpace(Head(s)) THEN TrimStart(Tail(s)) ELSE s

RECURSIVE TrimEnd(_)
TrimEnd(s) ==
    IF s # <<>> /\ IsWhiteSpace(s[Len(s)])
    THEN TrimEnd(SubSeq(s, 1, Len(s) - 1))
    ELSE s

\* String.prototype.trim
Trim(s) == TrimEnd(TrimStart(s))

LowerChar(c) ==
    CASE c = "Alpha" -> "alpha"
      [] c = "Beta" -> "beta"
      [] c = "ALPHA" -> "alpha"
      [] c = "Nobody" -> "nobody"
      [] c = "Gamma" -> "gamma"
      [] c = "CompanyA" -> "companya"
      [] c = "CompanyB" -> "companyb"
      [] OTHER -> c

\* String.prototype.toLowerCase
toLowerCase(s) == [i \in 1..Len(s) |-> LowerChar(s[i])]

-----------------------------------------------------------------------------
(* Numbers: exact rationals                                                *)

RECURSIVE GCD(_, _)
GCD(a, b) == IF b = 0 THEN a ELSE GCD(b, a % b)

\* n / d as a JavaScript number: a zero divisor gives NaN (den = 0, num = 0)
\* or an infinity (den = 0, num = 1 or -1), as IEEE division does
Frac(n, d) ==
    IF d = 0
    THEN [num |-> IF n > 0 THEN 1 ELSE IF n < 0 THEN -1 ELSE 0, den |-> 0]
    ELSE LET g == GCD(n, d) IN [num |-> n \div g, den |-> d \div g]

\* Number.isNaN
IsNaN(a) == a.den = 0 /\ a.num = 0

Zero == Frac(0, 1)

FromInt(n) == Frac(n, 1)

FAdd(a, b) == Frac(a.num * b.den + b.num * a.den, a.den * b.den)

FDiv(a, k) == Frac(a.num, a.den * k)

\* sign of (a - b): -1, 0 or 1
FSign(a, b) ==
    LET l == a.num * b.den
        r == b.num * a.den
    IN  IF l < r THEN -1 ELSE IF l > r THEN 1 ELSE 0

RECURSIVE FSum(_, _)
\* sum of f[c] over c \in S
FSum(f, S) ==
    IF S = {} THEN Zero
    ELSE LET c == CHOOSE x \in S : TRUE
         IN  FAdd(f[c], FSum(f, S \ {c}))

RECURSIVE SumOver(_, _)
\* integer sum of f[c] over c \in S
SumOver(f, S) ==
    IF S = {} THEN 0
    ELSE LET c == CHOOSE x \in S : TRUE
         IN  f[c] + SumOver(f, S \ {c})

Front(s) == SubSeq(s, 1, Len(s) - 1)

RECURSIVE SelectSeqBy(_, _)
\* Array.prototype.filter with the predicate given as a set of accepted values
SelectSeqBy(s, keep) ==
    IF s = <<>> THEN <<>>
    ELSE IF Head(s) \in keep
         THEN <<Head(s)>> \o SelectSeqBy(Tail(s), keep)
         ELSE SelectSeqBy(Tail(s), keep)

-----------------------------------------------------------------------------
(* TopCompaniesByScoreTable: the aggregation effect                        *)

\* A property key is an array index when it is the canonical decimal form of
\* an integer in 0 .. 2^32 - 2 (the names of the model have at most 2 digits).
IsArrayIndex(s) ==
    /\ s # <<>>
    /\ \A i \in 1..Len(s) : s[i] \in Digits
    /\ (Len(s) = 1 \/ s[1] # "0")

RECURSIVE ArrayIndexValue(_)
ArrayIndexValue(s) ==
    IF s = <<>> THEN 0
    ELSE 10 * ArrayIndexValue(Front(s)) + DigitValue(s[Len(s)])

InitEntry == [total |-> 0, count |-> 0, categoryTotals |-> <<>>]

\* (variant: a record without scores is not counted)
AddRecordSkipEmpty(cd, inv) ==
    LET name == inv.companyName
        cd1  == IF name \in DOMAIN cd.data
                THEN cd
                ELSE [keys |-> Append(cd.keys, name),
                      data |-> [k \in DOMAIN cd.data \cup {name} |->
                                  IF k = name THEN InitEntry ELSE cd.data[k]]]
        old  == cd1.data[name]
        cats == DOMAIN old.categoryTotals \cup DOMAIN inv.scores
        new  == [total |-> old.total + SumOver(inv.scores, DOMAIN inv.scores),
                 count |-> IF DOMAIN inv.scores = {} /\ old.count > 0
                           THEN old.count ELSE old.count + 1,
                 categoryTotals |->
                    [c \in cats |->
                        IF c \in DOMAIN inv.scores
                        THEN (IF c \in DOMAIN old.categoryTotals
                              THEN old.categoryTotals[c] ELSE 0) + inv.scores[c]
                        ELSE old.categoryTotals[c]]]
    IN  [keys |-> cd1.keys,
         data |-> [cd1.data EXCEPT ![name] = new]]

\* One iteration of investments.forEach(inv => ...) over companyData, kept as
\* the creation order of its keys (keys) and the entries (data).
AddRecord(cd, inv) ==
    LET name == inv.companyName
        cd1  == IF name \in DOMAIN cd.data
                THEN cd
                ELSE [keys |-> Append(cd.keys, name),
                      data |-> [k \in DOMAIN cd.data \cup {name} |->
                                  IF k = name THEN InitEntry ELSE cd.data[k]]]
        old  == cd1.data[name]
        cats == DOMAIN old.categoryTotals \cup DOMAIN inv.scores
        new  == [total |-> old.total + SumOver(inv.scores, DOMAIN inv.scores),
                 count |-> old.count + 1,
                 categoryTotals |->
                    [c \in cats |->
                        IF c \in DOMAIN inv.scores
                        THEN (IF c \in DOMAIN old.categoryTotals
                              THEN old.categoryTotals[c] ELSE 0) + inv.scores[c]
                        ELSE old.categoryTotals[c]]]
    IN  [keys |-> cd1.keys,
         data |-> [cd1.data EXCEPT ![name] = new]]

RECURSIVE CompanyData(_)
CompanyData(invs) ==
    IF invs = <<>> THEN [keys |-> <<>>, data |-> <<>>]
    ELSE AddRecord(CompanyData(Front(invs)), invs[Len(invs)])

RECURSIVE InsertIndexKey(_, _)
InsertIndexKey(sorted, k) ==
    IF sorted = <<>> THEN <<k>>
    ELSE IF ArrayIndexValue(sorted[Len(sorted)]) <= ArrayIndexValue(k)
         THEN Append(sorted, k)
         ELSE Append(InsertIndexKey(Front(sorted), k), sorted[Len(sorted)])

RECURSIVE AscendingIndexKeys(_)
AscendingIndexKeys(ks) ==
    IF ks = <<>> THEN <<>>
    ELSE InsertIndexKey(AscendingIndexKeys(Front(ks)), ks[Len(ks)])

\* The key order of Object.entries: array-index keys in ascending numeric
\* order, then the other string keys in creation order.
ObjectEntriesOrder(keys) ==
    LET idx == {k \in {keys[i] : i \in 1..Len(keys)} : IsArrayIndex(k)}
        all == {keys[i] : i \in 1..Len(keys)}
    IN  AscendingIndexKeys(SelectSeqBy(keys, idx))
          \o SelectSeqBy(keys, all \ idx)

\* (variant: the totals are not divided by the number of records)
CategoryScoresTotals(data) ==
    [c \in DOMAIN data.categoryTotals |-> FromInt(data.categoryTotals[c])]

\* categoryScores[category] = total / data.count
CategoryScores(data) ==
    [c \in DOMAIN data.categoryTotals |-> Frac(data.categoryTotals[c], data.count)]

\* categoryScores[cat] || 0
OrZero(f, c) == IF c \in DOMAIN f THEN f[c] ELSE Zero

\* (variant: the sum is divided by the size of the criterion schema)
OverallAverageFixedSchema(categoryScores) ==
    LET categories == DOMAIN categoryScores
    IN  IF Cardinality(categories) > 0
        THEN FDiv(FSum([c \in categories |-> OrZero(categoryScores, c)], categories),
                  Cardinality(Criteria))
        ELSE Zero

\* (variant: without the guard on the number of categories)
OverallAverageUnguarded(categoryScores) ==
    LET categories == DOMAIN categoryScores
    IN  FDiv(FSum([c \in categories |-> OrZero(categoryScores, c)], categories),
             Cardinality(categories))

\* the average of the category averages
OverallAverage(categoryScores) ==
    LET categories == DOMAIN categoryScores
    IN  IF Cardinality(categories) > 0
        THEN FDiv(FSum([c \in categories |-> OrZero(categoryScores, c)], categories),
                  Cardinality(categories))
        ELSE Zero

Summary(companyName, data) ==
    LET categoryScores == CategoryScores(data)
    IN  [rank |-> 0,
         companyName |-> companyName,
         averageScore |-> OverallAverage(categoryScores),
         categoryScores |-> categoryScores]

\* The value the effect passes to setRankedCompanies.
Summaries(invs) ==
    IF Len(invs) = 0 THEN <<>>
    ELSE LET cd    == CompanyData(invs)
             order == ObjectEntriesOrder(cd.keys)
         IN  [i \in 1..Len(order) |-> Summary(order[i], cd.data[order[i]])]

-----------------------------------------------------------------------------
(* TopCompaniesByScoreTable: sorting                                       *)

SortColumns == {"averageScore"} \cup Criteria

\* (variant: a company without the criterion is compared by its overall average)
SortValueMissingAsOverall(company, column) ==
    IF column = "averageScore" \/ column \notin DOMAIN company.categoryScores
    THEN company.averageScore
    ELSE company.categoryScores[column]

\* valA / valB of the comparator
SortValue(company, column) ==
    IF column = "averageScore"
    THEN company.averageScore
    ELSE OrZero(company.categoryScores, column)

\* (variant: the direction is ignored)
CompareCompaniesDescOnly(a, b, column, direction) ==
    FSign(SortValue(b, column), SortValue(a, column))

\* the comparator's sign: sortDirection === 'asc' ? valA - valB : valB - valA
CompareCompanies(a, b, column, direction) ==
    IF direction = "asc"
    THEN FSign(SortValue(a, column), SortValue(b, column))
    ELSE FSign(SortValue(b, column), SortValue(a, column))

RECURSIVE InsertCompanyUnstable(_, _, _, _)
\* (variant: an element is moved in front of the elements it ties with)
InsertCompanyUnstable(sorted, x, column, direction) ==
    IF sorted = <<>> THEN <<x>>
    ELSE IF CompareCompanies(sorted[Len(sorted)], x, column, direction) < 0
         THEN Append(sorted, x)
         ELSE Append(InsertCompanyUnstable(Front(sorted), x, column, direction),
                     sorted[Len(sorted)])

RECURSIVE InsertCompany(_, _, _, _)
InsertCompany(sorted, x, column, direction) ==
    IF sorted = <<>> THEN <<x>>
    ELSE IF CompareCompanies(sorted[Len(sorted)], x, column, direction) <= 0
         THEN Append(sorted, x)
         ELSE Append(InsertCompany(Front(sorted), x, column, direction),
                     sorted[Len(sorted)])

RECURSIVE ArraySort(_, _, _)
\* Array.prototype.sort (stable) with the comparator above
ArraySort(s, column, direction) ==
    IF s = <<>> THEN <<>>
    ELSE InsertCompany(ArraySort(Front(s), column, direction),
                       s[Len(s)], column, direction)

\* (variant: rows with the same overall average share the rank of the first)
AssignRanksByValue(sorted) ==
    [i \in 1..Len(sorted) |->
        [sorted[i] EXCEPT !.rank =
            CHOOSE r \in 1..i :
                /\ sorted[r].averageScore = sorted[i].averageScore
                /\ \A q \in 1..(r - 1) :
                      sorted[q].averageScore # sorted[i].averageScore]]

AssignRanks(sorted) ==
    [i \in 1..Len(sorted) |-> [sorted[i] EXCEPT !.rank = i]]

SortedCompanies(ranked, column, direction) ==
    AssignRanks(ArraySort(ranked, column, direction))

getSortedCompanies == SortedCompanies(rankedCompanies, sortColumn, sortDirection)

\* the criterion columns of the header row
displayCategories ==
    IF Len(getSortedCompanies) > 0
    THEN DOMAIN getSortedCompanies[1].categoryScores
    ELSE {}

-----------------------------------------------------------------------------
(* CompanyDetail: the profile of one company                               *)

RECURSIVE companyInvestments(_, _)
\* investments.filter(inv => inv.companyName.trim() === decodedCompanyName),
\* decodedCompanyName being the trimmed route parameter
companyInvestments(invs, companyName) ==
    IF invs = <<>> THEN <<>>
    ELSE IF Trim(Head(invs).companyName) = Trim(companyName)
         THEN <<Head(invs)>> \o companyInvestments(Tail(invs), companyName)
         ELSE companyInvestments(Tail(invs), companyName)

\* (variant: the criteria of all the company's records)
scoreCategoriesOfAllRecords(ci) == UNION {DOMAIN ci[i].scores : i \in 1..Len(ci)}

\* Object.keys(companyInvestments[0].scores)
scoreCategories(ci) == DOMAIN ci[1].scores

\* inv.scores[category] || 0
ScoreOrZero(inv, category) ==
    IF category \in DOMAIN inv.scores THEN inv.scores[category] ELSE 0

RECURSIVE TotalScore(_, _)
\* reduce((sum, inv) => sum + (inv.scores[category] || 0), 0)
TotalScore(ci, category) ==
    IF ci = <<>> THEN 0
    ELSE TotalScore(Front(ci), category) + ScoreOrZero(ci[Len(ci)], category)

averageScores(ci) ==
    [c \in scoreCategories(ci) |-> Frac(TotalScore(ci, c), Len(ci))]

avgInvestmentScore(ci) ==
    LET cats == scoreCategories(ci)
        avgs == averageScores(ci)
    IN  IF Cardinality(cats) > 0
        THEN FDiv(FSum([c \in cats |-> OrZero(avgs, c)], cats), Cardinality(cats))
        ELSE Zero

\* decodeURIComponent: "%20" is the escape sequence of a blank
DecodeChar(c) == IF c = "%20" THEN " " ELSE c

decodeURIComponent(s) == [i \in 1..Len(s) |-> DecodeChar(s[i])]

\* decodeURIComponent(companyName).trim()
decodedCompanyName(param) == Trim(decodeURIComponent(param))

RECURSIVE Distinct(_)
\* Array.from(new Set(xs)): the distinct values in the order of first occurrence
Distinct(xs) ==
    IF xs = <<>> THEN <<>>
    ELSE LET front == Distinct(Front(xs))
             last  == xs[Len(xs)]
         IN  IF \E i \in 1..Len(front) : front[i] = last
             THEN front
             ELSE Append(front, last)

\* Array.from(new Set(investments.map(inv => inv.companyName.trim())))
allCompanies(invs) ==
    Distinct([i \in 1..Len(invs) |-> Trim(invs[i].companyName)])

\* avgScore of one company: sum(inv.scores[category] || 0) / companyInvs.length
companyAverage(invs, company, category) ==
    LET companyInvs == companyInvestments(invs, company)
    IN  [company  |-> company,
         avgScore |-> Frac(TotalScore(companyInvs, category), Len(companyInvs))]

\* (variant: only the companies that have a score for the category take part)
companyAveragesSharingCriterion(invs, category) ==
    LET all == allCompanies(invs)
        has == {all[i] : i \in {j \in 1..Len(all) :
                   \E k \in 1..Len(invs) :
                       /\ Trim(invs[k].companyName) = all[j]
                       /\ category \in DOMAIN invs[k].scores}}
        kept == SelectSeqBy(all, has)
    IN  [i \in 1..Len(kept) |-> companyAverage(invs, kept[i], category)]

\* allCompanies.map(company => ({ company, avgScore }))
companyAverages(invs, category) ==
    LET all == allCompanies(invs)
    IN  [i \in 1..Len(all) |-> companyAverage(invs, all[i], category)]

RECURSIVE InsertAverageUnstable(_, _)
\* (variant: x also goes before an element it is equal to)
InsertAverageUnstable(sorted, x) ==
    IF sorted = <<>> THEN <<x>>
    ELSE IF FSign(x.avgScore, Head(sorted).avgScore) >= 0
         THEN <<x>> \o sorted
         ELSE <<Head(sorted)>> \o InsertAverageUnstable(Tail(sorted), x)

RECURSIVE InsertAverage(_, _)
\* x goes before the first element it is strictly greater than (stable)
InsertAverage(sorted, x) ==
    IF sorted = <<>> THEN <<x>>
    ELSE IF FSign(x.avgScore, Head(sorted).avgScore) > 0
         THEN <<x>> \o sorted
         ELSE <<Head(sorted)>> \o InsertAverage(Tail(sorted), x)

RECURSIVE SortAverages(_)
\* companyAverages.sort((a, b) => b.avgScore - a.avgScore)
SortAverages(s) ==
    IF s = <<>> THEN <<>>
    ELSE InsertAverage(SortAverages(Front(s)), s[Len(s)])

\* Array.prototype.findIndex(c => c.company === company): 0-based, -1 if absent
findIndex(s, company) ==
    LET hits == {i \in 1..Len(s) : s[i].company = company}
    IN  IF hits = {} THEN -1
        ELSE (CHOOSE i \in hits : \A j \in hits : i <= j) - 1

\* (variant: the 0-based index is taken as the rank)
ProfileRankZeroBased(invs, name, category) ==
    findIndex(SortAverages(companyAverages(invs, category)), name)

\* rank = findIndex(...) + 1
ProfileRank(invs, name, category) ==
    findIndex(SortAverages(companyAverages(invs, category)), name) + 1

companyRankings(invs, name) ==
    LET ci == companyInvestments(invs, name)
    IN  [c \in scoreCategories(ci) |->
            [average        |-> averageScores(ci)[c],
             rank           |-> ProfileRank(invs, name, c),
             totalCompanies |-> Len(allCompanies(invs))]]

\* (variant: a target without records gets a profile of zeroes)
CompanyDetailViewZeroProfile(invs, param) ==
    IF param = <<>> THEN [kind |-> "missingName"]
    ELSE LET name == decodedCompanyName(param)
             ci   == companyInvestments(invs, name)
         IN  IF Len(ci) = 0
             THEN [kind |-> "profile",
                   averageScores |-> [c \in Criteria |-> Zero],
                   avgInvestmentScore |-> Zero,
                   companyRankings |->
                       [c \in Criteria |->
                           [average |-> Zero,
                            rank |-> Len(allCompanies(invs)) + 1,
                            totalCompanies |-> Len(allCompanies(invs)) + 1]]]
             ELSE [kind |-> "profile",
                   averageScores |-> averageScores(ci),
                   avgInvestmentScore |-> avgInvestmentScore(ci),
                   companyRankings |-> companyRankings(invs, name)]

\* What CompanyDetail renders for the route parameter and the investments prop.
CompanyDetailView(invs, param) ==
    IF param = <<>> THEN [kind |-> "missingName"]
    ELSE LET name == decodedCompanyName(param)
             ci   == companyInvestments(invs, name)
         IN  IF Len(ci) = 0
             THEN [kind |-> "noData"]
             ELSE [kind |-> "profile",
                   averageScores |-> averageScores(ci),
                   avgInvestmentScore |-> avgInvestmentScore(ci),
                   companyRankings |-> companyRankings(invs, name)]

-----------------------------------------------------------------------------
(* TopCompaniesByScoreTable: state machine                                 *)

\* The arrays the parent may pass next: every collection of at most MaxRecords
\* records is reached through these.
NextCollections(invs) ==
    {<<>>}
      \cup {Append(invs, r) : r \in {x \in TableRecords : Len(invs) < MaxRecords}}
      \cup {Tail(invs) : x \in {y \in {1} : invs # <<>>}}

\* useState initial values of TopCompaniesByScoreTable
TableStateInit ==
    /\ rankedCompanies = <<>>
    /\ sortColumn = "averageScore"
    /\ sortDirection = "desc"
    /\ lastClick = "none"
    /\ tableFailure = "none"

\* CompanyDetail is not rendered
DetailUnmounted ==
    /\ companyNameParam = <<>>
    /\ detailView = [kind |-> "unmounted"]

\* useState initial values of App
AppStateInit ==
    /\ organizations = <<>>
    /\ selectedOrgId = ""
    /\ selectedOrgData = <<>>
    /\ companies = <<>>
    /\ investments = <<>>
    /\ loading = TRUE
    /\ error = "null"

\* the table mounted with an empty investments prop; the App is not run
TableInit ==
    /\ TableStateInit
    /\ AppStateInit
    /\ DetailUnmounted
    /\ tasks = {}
    /\ nextTask = 0
    /\ selections = 0
    /\ loadsStarted = 0
    /\ lastDone = <<>>

\* (variant: an empty collection leaves the summaries as they were)
InvestmentsChangeKeepsOnEmpty ==
    \E invs \in NextCollections(investments) :
        /\ invs # investments
        /\ investments' = invs
        /\ rankedCompanies' = (IF Len(invs) = 0 THEN rankedCompanies
                                ELSE Summaries(invs))
        /\ UNCHANGED <<sortColumn, sortDirection, lastClick, tableFailure>>
        /\ UNCHANGED <<appVars, detailVars>>

\* (variant: the summaries of companies that left the collection are kept)
InvestmentsChangeKeepsDeparted ==
    \E invs \in NextCollections(investments) :
        /\ invs # investments
        /\ investments' = invs
        /\ rankedCompanies' =
               LET new  == Summaries(invs)
                   here == {new[i].companyName : i \in 1..Len(new)}
                   old  == {rankedCompanies[i] : i \in
                               {j \in 1..Len(rankedCompanies) :
                                   rankedCompanies[j].companyName \notin here}}
               IN  new \o SelectSeqBy(rankedCompanies, old)
        /\ UNCHANGED <<sortColumn, sortDirection, lastClick, tableFailure>>
        /\ UNCHANGED <<appVars, detailVars>>

\* the investments prop changes and the effect recomputes the summaries
InvestmentsChange ==
    \E invs \in NextCollections(investments) :
        /\ invs # investments
        /\ investments' = invs
        /\ rankedCompanies' = Summaries(invs)
        /\ UNCHANGED <<sortColumn, sortDirection, lastClick, tableFailure>>
        /\ UNCHANGED <<appVars, detailVars>>

\* (variant: a new key keeps the current direction)
handleSortKeepDirection(column) ==
    /\ IF sortColumn = column
       THEN /\ sortDirection' = (IF sortDirection = "asc" THEN "desc" ELSE "asc")
            /\ UNCHANGED sortColumn
       ELSE /\ sortColumn' = column
            /\ UNCHANGED sortDirection
    /\ lastClick' = column
    /\ UNCHANGED <<investments, rankedCompanies, tableFailure>>
    /\ UNCHANGED <<appVars, detailVars>>

handleSort(column) ==
    /\ IF sortColumn = column
       THEN /\ sortDirection' = (IF sortDirection = "asc" THEN "desc" ELSE "asc")
            /\ UNCHANGED sortColumn
       ELSE /\ sortColumn' = column
            /\ sortDirection' = "desc"
    /\ lastClick' = column
    /\ UNCHANGED <<investments, rankedCompanies, tableFailure>>
    /\ UNCHANGED <<appVars, detailVars>>

\* a click on one of the rendered sortable headers
HeaderClick ==
    \E column \in {"averageScore"} \cup displayCategories : handleSort(column)

vars == <<investments, tableVars, appVars, detailVars>>

TableNext == InvestmentsChange \/ HeaderClick

TableSpec == TableInit /\ [][TableNext]_vars

-----------------------------------------------------------------------------
(* TopCompaniesByScoreTable fed with documents as the store returns them   *)

\* a document without a scores field (doc.data() is cast, not validated)
DocWithoutScores == [companyName |-> CompanyA]

RawRecords ==
    { Rec(CompanyA, Scores86), Rec(CompanyA, ScoresTeamOnly),
      Rec(CompanyB, Scores99), Rec(Company7, Scores68), DocWithoutScores }

NextRawCollections(invs) ==
    {<<>>}
      \cup {Append(invs, r) : r \in {x \in RawRecords : Len(invs) < MaxRecords}}
      \cup {Tail(invs) : x \in {y \in {1} : invs # <<>>}}

\* Object.keys(inv.scores) and Object.values(inv.scores) throw a TypeError
\* when inv.scores is undefined; the empty guard returns before them
EffectThrows(invs) ==
    /\ Len(invs) # 0
    /\ \E i \in 1..Len(invs) : "scores" \notin DOMAIN invs[i]

\* the investments prop changes and the effect runs; an exception thrown by
\* the effect leaves rankedCompanies as it was and unmounts the component
RawInvestmentsChange ==
    /\ tableFailure = "none"
    /\ \E invs \in NextRawCollections(investments) :
          /\ invs # investments
          /\ investments' = invs
          /\ IF EffectThrows(invs)
             THEN /\ tableFailure' = "TypeError"
                  /\ UNCHANGED rankedCompanies
             ELSE /\ rankedCompanies' = Summaries(invs)
                  /\ UNCHANGED tableFailure
          /\ UNCHANGED <<sortColumn, sortDirection, lastClick>>
          /\ UNCHANGED <<appVars, detailVars>>

\* a header of the mounted table is clicked
RawHeaderClick ==
    /\ tableFailure = "none"
    /\ HeaderClick

RawTableNext == RawInvestmentsChange \/ RawHeaderClick

RawTableSpec == TableInit /\ [][RawTableNext]_vars

-----------------------------------------------------------------------------
(* CompanyDetail: state machine                                            *)

\* the records the detail view is exercised with
DetailRecords ==
    { Rec(CompanyA, ScoresTeamOnly), Rec(CompanyA, ScoresMarketOnly),
      Rec(CompanyAPad, Scores68),
      Rec(CompanyB, Scores99), Rec(CompanyB, ScoresNone),
      Rec(Company7, Scores99), Rec(Company7, Scores04) }

\* the values of the :companyName route parameter
RouteNames ==
    { CompanyA, CompanyAPad, <<"CompanyA", "%20">>, CompanyB, Company7,
      <<"Ghost">> }

NextDetailCollections(invs) ==
    {<<>>}
      \cup {Append(invs, r) : r \in {x \in DetailRecords : Len(invs) < MaxRecords}}
      \cup {Tail(invs) : x \in {y \in {1} : invs # <<>>}}

\* the route /company/:companyName is entered with an empty investments prop
DetailInit ==
    /\ TableStateInit
    /\ AppStateInit
    /\ tasks = {}
    /\ nextTask = 0
    /\ selections = 0
    /\ loadsStarted = 0
    /\ lastDone = <<>>
    /\ companyNameParam \in RouteNames
    /\ detailView = CompanyDetailView(<<>>, companyNameParam)

\* the investments prop changes and CompanyDetail renders again
DetailInvestmentsChange ==
    \E invs \in NextDetailCollections(investments) :
        /\ invs # investments
        /\ investments' = invs
        /\ detailView' = CompanyDetailView(invs, companyNameParam)
        /\ UNCHANGED <<companyNameParam, tableVars, appVars>>

\* a link to another company's page is followed
Navigate ==
    \E name \in RouteNames :
        /\ name # companyNameParam
        /\ companyNameParam' = name
        /\ detailView' = CompanyDetailView(investments, name)
        /\ UNCHANGED <<investments, tableVars, appVars>>

DetailNext == DetailInvestmentsChange \/ Navigate

DetailSpec == DetailInit /\ [][DetailNext]_vars

-----------------------------------------------------------------------------
(* The document store read by App                                          *)

OrgAlpha == [id |-> "org1", name |-> <<"Alpha">>]
OrgBeta  == [id |-> "org2", name |-> <<"Beta">>]
\* an organization without companies and without evaluation records
OrgGamma == [id |-> "org3", name |-> <<"Gamma">>]

\* collection(db, 'organizations')
OrganizationsCollection == <<OrgAlpha, OrgBeta, OrgGamma>>

\* collection(db, 'companies')
CompaniesCollection ==
    << [id |-> "c1", name |-> CompanyA, organizationId |-> "org1",
        organizationName |-> <<"Alpha">>],
       [id |-> "c2", name |-> CompanyB, organizationId |-> "org2",
        organizationName |-> <<"Beta">>] >>

Doc(name, scores, organization, organizationId) ==
    [companyName |-> name, scores |-> scores,
     organization |-> organization, organizationId |-> organizationId]

\* collection(db, 'investments'): the records of org1 carry its exact name,
\* those of org2 its name in another case and with a trailing blank
InvestmentsCollection ==
    << Doc(CompanyA, Scores86, <<"Alpha">>, "org1"),
       Doc(CompanyA, Scores68, <<"Alpha">>, "org1"),
       Doc(CompanyB, Scores99, <<"beta", " ">>, "org2") >>

RECURSIVE Filter(_, _)
\* the documents of a collection (in collection order) that are in keep
Filter(docs, keep) ==
    IF docs = <<>> THEN <<>>
    ELSE IF Head(docs) \in keep
         THEN <<Head(docs)>> \o Filter(Tail(docs), keep)
         ELSE Filter(Tail(docs), keep)

Elements(s) == {s[i] : i \in 1..Len(s)}

-----------------------------------------------------------------------------
(* App: the queries of the two fetch functions                             *)

\* organizations.find(o => o.id === orgId): <<>> when there is none
FindOrg(orgs, orgId) ==
    IF \E i \in 1..Len(orgs) : orgs[i].id = orgId
    THEN <<orgs[CHOOSE i \in 1..Len(orgs) :
                   /\ orgs[i].id = orgId
                   /\ \A j \in 1..(i - 1) : orgs[j].id # orgId]>>
    ELSE <<>>

\* const orgName = org ? org.name : ""
OrgNameOf(orgs, orgId) ==
    IF FindOrg(orgs, orgId) = <<>> THEN <<>> ELSE FindOrg(orgs, orgId)[1].name

\* companiesList of fetchCompaniesAndInvestments: by organizationId, else by
\* organizationName, else by the trimmed, lower-cased name or the id
FetchCompanies(orgId, orgName) ==
    LET all    == Elements(CompaniesCollection)
        byId   == Filter(CompaniesCollection, {c \in all : c.organizationId = orgId})
        byName == Filter(CompaniesCollection, {c \in all : c.organizationName = orgName})
        target == toLowerCase(Trim(orgName))
        loose  == Filter(CompaniesCollection,
                         {c \in all : \/ toLowerCase(Trim(c.organizationName)) = target
                                      \/ c.organizationId = orgId})
    IN  IF Len(byId) # 0 \/ orgName = <<>> THEN byId
        ELSE IF Len(byName) # 0 THEN byName
        ELSE loose

\* (variant: the organizationId matcher is tried before the name matchers)
FetchInvestmentsIdFirst(orgId, orgName, companyList) ==
    LET all      == Elements(InvestmentsCollection)
        exact    == Filter(InvestmentsCollection, {d \in all : d.organization = orgName})
        trimmedOrgName == toLowerCase(Trim(orgName))
        loose    == Filter(InvestmentsCollection,
                           {d \in all : toLowerCase(Trim(d.organization)) = trimmedOrgName})
        byId     == Filter(InvestmentsCollection, {d \in all : d.organizationId = orgId})
        companyNames == {toLowerCase(Trim(companyList[i].name)) : i \in 1..Len(companyList)}
        byCompany == Filter(InvestmentsCollection,
                            {d \in all : toLowerCase(Trim(d.companyName)) \in companyNames})
    IN  IF Len(byId) # 0 THEN byId
        ELSE IF Len(exact) # 0 THEN exact
        ELSE IF Len(loose) > 0 THEN loose
        ELSE byCompany

\* investmentsList of fetchInvestments: the four matchers in order
FetchInvestments(orgId, orgName, companyList) ==
    LET all      == Elements(InvestmentsCollection)
        exact    == Filter(InvestmentsCollection, {d \in all : d.organization = orgName})
        trimmedOrgName == toLowerCase(Trim(orgName))
        loose    == Filter(InvestmentsCollection,
                           {d \in all : toLowerCase(Trim(d.organization)) = trimmedOrgName})
        byId     == Filter(InvestmentsCollection, {d \in all : d.organizationId = orgId})
        companyNames == {toLowerCase(Trim(companyList[i].name)) : i \in 1..Len(companyList)}
        byCompany == Filter(InvestmentsCollection,
                            {d \in all : toLowerCase(Trim(d.companyName)) \in companyNames})
    IN  IF Len(exact) # 0 THEN exact
        ELSE IF Len(loose) > 0 THEN loose
        ELSE IF Len(byId) # 0 THEN byId
        ELSE byCompany

-----------------------------------------------------------------------------
(* App: effects and handlers                                               *)

\* A suspended async function: kind "orgs" is fetchOrganizations at its await,
\* "companies" is fetchCompaniesAndInvestments at its company queries,
\* "investments" is the same call inside fetchInvestments. Consecutive awaits
\* that only read the store are one suspension.
OrgsTask(id, selId) ==
    [id |-> id, kind |-> "orgs", selectedOrgId |-> selId,
     orgName |-> <<>>, companyList |-> <<>>]

LoadTask(id, selId, orgName) ==
    [id |-> id, kind |-> "companies", selectedOrgId |-> selId,
     orgName |-> orgName, companyList |-> <<>>]

\* The effects that run after a render in which selectedOrgId changed
\* (selChanged) and/or organizations was replaced (orgsChanged): the
\* organizations effect depends on [selectedOrgId], the companies/investments
\* effect on [selectedOrgId, organizations] and returns at once while no
\* organization is selected. rest is the set of tasks still suspended.
RunEffects(rest, selId, orgs, selChanged, orgsChanged) ==
    LET runOrgs == selChanged
        runLoad == (selChanged \/ orgsChanged) /\ selId # ""
        n1      == IF runOrgs THEN nextTask + 1 ELSE nextTask
        n2      == IF runLoad THEN n1 + 1 ELSE n1
    IN  /\ n2 <= MaxTasks
        /\ tasks' = rest
              \cup (IF runOrgs THEN {OrgsTask(n1, selId)} ELSE {})
              \cup (IF runLoad THEN {LoadTask(n2, selId, OrgNameOf(orgs, selId))} ELSE {})
        /\ nextTask' = n2
        /\ loadsStarted' = IF runLoad THEN loadsStarted + 1 ELSE loadsStarted
        /\ loading' = IF runLoad THEN TRUE ELSE loading

\* (variant: the first organization is selected whatever is selected)
OrgsFetchedAlwaysSelectsFirst ==
    \E t \in tasks :
        /\ t.kind = "orgs"
        /\ LET orgsList   == OrganizationsCollection
               autoSelect == Len(orgsList) > 0
               selId      == IF autoSelect THEN orgsList[1].id ELSE selectedOrgId
           IN  /\ organizations' = orgsList
               /\ selectedOrgId' = selId
               /\ selectedOrgData' =
                     IF autoSelect THEN <<orgsList[1]>> ELSE selectedOrgData
               /\ selections' =
                     IF selId # selectedOrgId THEN selections + 1 ELSE selections
               /\ RunEffects(tasks \ {t}, selId, orgsList, selId # selectedOrgId, TRUE)
        /\ UNCHANGED <<companies, investments, error, lastDone, tableVars,
                       detailVars>>

\* fetchOrganizations resumes with the snapshot
OrgsFetched ==
    \E t \in tasks :
        /\ t.kind = "orgs"
        /\ LET orgsList   == OrganizationsCollection
               autoSelect == Len(orgsList) > 0 /\ t.selectedOrgId = ""
               selId      == IF autoSelect THEN orgsList[1].id ELSE selectedOrgId
           IN  /\ organizations' = orgsList
               /\ selectedOrgId' = selId
               /\ selectedOrgData' =
                     IF autoSelect THEN <<orgsList[1]>> ELSE selectedOrgData
               /\ selections' =
                     IF selId # selectedOrgId THEN selections + 1 ELSE selections
               /\ RunEffects(tasks \ {t}, selId, orgsList, selId # selectedOrgId, TRUE)
        /\ UNCHANGED <<companies, investments, error, lastDone, tableVars,
                       detailVars>>

\* fetchOrganizations: getDocs rejects
OrgsFetchFailed ==
    \E t \in tasks :
        /\ t.kind = "orgs"
        /\ error' = "Failed to fetch organizations. Please check your Firestore rules."
        /\ tasks' = tasks \ {t}
        /\ UNCHANGED <<organizations, selectedOrgId, selectedOrgData, companies,
                       investments, loading, nextTask, selections, loadsStarted,
                       lastDone, tableVars, detailVars>>

\* (variant: a new selection clears the error)
handleOrgChangeClearsError(orgId) ==
    /\ orgId # selectedOrgId
    /\ selectedOrgId' = orgId
    /\ selectedOrgData' = FindOrg(organizations, orgId)
    /\ selections' = selections + 1
    /\ error' = "null"
    /\ RunEffects(tasks, orgId, organizations, TRUE, FALSE)
    /\ UNCHANGED <<organizations, companies, investments, lastDone,
                   tableVars, detailVars>>

\* the Header's onOrgChange; setting the id it already has changes no state
handleOrgChange(orgId) ==
    /\ orgId # selectedOrgId
    /\ selectedOrgId' = orgId
    /\ selectedOrgData' = FindOrg(organizations, orgId)
    /\ selections' = selections + 1
    /\ RunEffects(tasks, orgId, organizations, TRUE, FALSE)
    /\ UNCHANGED <<organizations, companies, investments, error, lastDone,
                   tableVars, detailVars>>

\* the user picks one of the listed organizations
OrgChange ==
    \E i \in 1..Len(organizations) : handleOrgChange(organizations[i].id)

\* fetchCompaniesAndInvestments resumes: setCompanies, then fetchInvestments
\* runs up to its first await
CompaniesFetched ==
    \E t \in tasks :
        /\ t.kind = "companies"
        /\ LET companiesList == FetchCompanies(t.selectedOrgId, t.orgName)
           IN  /\ companies' = companiesList
               /\ tasks' = (tasks \ {t})
                     \cup {[t EXCEPT !.kind = "investments",
                                     !.companyList = companiesList]}
        /\ UNCHANGED <<organizations, selectedOrgId, selectedOrgData, investments,
                       loading, error, nextTask, selections, loadsStarted, lastDone,
                       tableVars, detailVars>>

\* a company query rejects: the catch of fetchCompaniesAndInvestments
CompaniesFetchFailed ==
    \E t \in tasks :
        /\ t.kind = "companies"
        /\ error' = "Failed to fetch companies for this organization."
        /\ loading' = FALSE
        /\ tasks' = tasks \ {t}
        /\ UNCHANGED <<organizations, selectedOrgId, selectedOrgData, companies,
                       investments, nextTask, selections, loadsStarted, lastDone,
                       tableVars, detailVars>>

\* (variant: an empty result is reported as an error)
InvestmentsFetchedEmptyIsError ==
    \E t \in tasks :
        /\ t.kind = "investments"
        /\ investments' = FetchInvestments(t.selectedOrgId, t.orgName, t.companyList)
        /\ error' = (IF Len(investments') = 0
                     THEN "No investments found for this organization."
                     ELSE error)
        /\ loading' = FALSE
        /\ tasks' = tasks \ {t}
        /\ lastDone' = <<[task |-> t, ok |-> TRUE]>>
        /\ UNCHANGED <<organizations, selectedOrgId, selectedOrgData, companies,
                       nextTask, selections, loadsStarted, tableVars, detailVars>>

\* fetchInvestments resumes with its snapshots: setInvestments, then finally
InvestmentsFetched ==
    \E t \in tasks :
        /\ t.kind = "investments"
        /\ investments' = FetchInvestments(t.selectedOrgId, t.orgName, t.companyList)
        /\ loading' = FALSE
        /\ tasks' = tasks \ {t}
        /\ lastDone' = <<[task |-> t, ok |-> TRUE]>>
        /\ UNCHANGED <<organizations, selectedOrgId, selectedOrgData, companies,
                       error, nextTask, selections, loadsStarted, tableVars,
                       detailVars>>

\* a query of fetchInvestments rejects: catch, then finally
InvestmentsFetchFailed ==
    \E t \in tasks :
        /\ t.kind = "investments"
        /\ error' = "Failed to fetch investments for this organization. Check your Firestore rules."
        /\ loading' = FALSE
        /\ tasks' = tasks \ {t}
        /\ lastDone' = <<[task |-> t, ok |-> FALSE]>>
        /\ UNCHANGED <<organizations, selectedOrgId, selectedOrgData, companies,
                       investments, nextTask, selections, loadsStarted, tableVars,
                       detailVars>>

\* App mounted: both effects have run, the organizations fetch is in flight
AppInit ==
    /\ TableStateInit
    /\ AppStateInit
    /\ DetailUnmounted
    /\ tasks = {OrgsTask(1, "")}
    /\ nextTask = 1
    /\ selections = 0
    /\ loadsStarted = 0
    /\ lastDone = <<>>

AppNext ==
    \/ OrgsFetched
    \/ OrgsFetchFailed
    \/ OrgChange
    \/ CompaniesFetched
    \/ CompaniesFetchFailed
    \/ InvestmentsFetched
    \/ InvestmentsFetchFailed

AppSpec == AppInit /\ [][AppNext]_vars

\* every getDocs promise settles: a suspended fetch resumes or fails
AppFairness ==
    /\ WF_vars(OrgsFetched \/ OrgsFetchFailed)
    /\ WF_vars(CompaniesFetched \/ CompaniesFetchFailed)
    /\ WF_vars(InvestmentsFetched \/ InvestmentsFetchFailed)

AppLiveSpec == AppInit /\ [][AppNext]_vars /\ AppFairness

-----------------------------------------------------------------------------
(* fetchInvestments called with any arguments                              *)

\* The arguments fetchCompaniesAndInvestments can pass, whatever the
\* organizations and companies collections hold: an id and a name that match
\* the stored records or not, and any list of the stored companies.
FetchOrgIds == {"org1", "org2", "org9"}

FetchOrgNames == {<<"Alpha">>, <<" ", "ALPHA">>, <<"Beta">>, <<"Nobody">>}

FetchCompanyLists ==
    { <<>>, <<CompaniesCollection[1]>>, <<CompaniesCollection[2]>>,
      CompaniesCollection }

FetchTask(orgId, orgName, companyList) ==
    [id |-> 1, kind |-> "investments", selectedOrgId |-> orgId,
     orgName |-> orgName, companyList |-> companyList]

\* fetchInvestments has been called and waits for its first snapshot
FetchCalled ==
    \E orgId \in FetchOrgIds, orgName \in FetchOrgNames,
       companyList \in FetchCompanyLists :
        /\ tasks = {FetchTask(orgId, orgName, companyList)}
        /\ selectedOrgId = orgId

FetchInit ==
    /\ TableStateInit
    /\ DetailUnmounted
    /\ organizations = <<>>
    /\ selectedOrgData = <<>>
    /\ companies = <<>>
    /\ investments = <<>>
    /\ loading = TRUE
    /\ error = "null"
    /\ FetchCalled
    /\ nextTask = 1
    /\ selections = 0
    /\ loadsStarted = 0
    /\ lastDone = <<>>

\* the next call, made once the previous one has ended: the caller has set
\* loading before it
FetchCalledAgain ==
    /\ tasks = {}
    /\ \E orgId \in FetchOrgIds, orgName \in FetchOrgNames,
          companyList \in FetchCompanyLists :
           /\ tasks' = {FetchTask(orgId, orgName, companyList)}
           /\ selectedOrgId' = orgId
    /\ loading' = TRUE
    /\ UNCHANGED <<organizations, selectedOrgData, companies, investments, error,
                   nextTask, selections, loadsStarted, lastDone, tableVars,
                   detailVars>>

FetchNext == FetchCalledAgain \/ InvestmentsFetched \/ InvestmentsFetchFailed

FetchSpec == FetchInit /\ [][FetchNext]_vars

-----------------------------------------------------------------------------
(* Vocabulary of the properties                                            *)

Indices(s) == 1..Len(s)

\* the records whose company name is exactly name
RecordsNamed(name) ==
    {i \in Indices(investments) : investments[i].companyName = name}

\* the records whose trimmed company name is the trimmed name
RecordsOfCompany(name) ==
    {i \in Indices(investments) : Trim(investments[i].companyName) = Trim(name)}

NamesPresent == {investments[i].companyName : i \in Indices(investments)}

FirstRecordIndex(S) == CHOOSE i \in S : \A j \in S : i <= j

\* sum of a criterion's scores over the records I, an absent score counting 0
CriterionTotal(I, c) ==
    SumOver([i \in I |-> IF c \in DOMAIN investments[i].scores
                         THEN investments[i].scores[c] ELSE 0], I)

\* the arithmetic mean of the values of a non-empty map of rationals
MeanOfValues(f) == FDiv(FSum(f, DOMAIN f), Cardinality(DOMAIN f))

Metric(company, key) ==
    IF key = "averageScore" THEN company.averageScore
    ELSE IF key \in DOMAIN company.categoryScores
         THEN company.categoryScores[key] ELSE Zero

Tied(a, b) == FSign(Metric(a, sortColumn), Metric(b, sortColumn)) = 0

-----------------------------------------------------------------------------
(* C1 *)

\* C1: the ranks of getSortedCompanies are exactly 1..N for the N distinct
\* company names of the collection, each used once, and the rank of a row is
\* its position (index + 1), whatever the sort key and direction and whatever
\* ties there are.
C1_RankDensity ==
    LET sorted == getSortedCompanies
        N      == Cardinality(NamesPresent)
    IN  /\ Len(sorted) = N
        /\ \A i \in Indices(sorted) : sorted[i].rank = i
        /\ {sorted[i].rank : i \in Indices(sorted)} = 1..N
        /\ {sorted[i].companyName : i \in Indices(sorted)} = NamesPresent

\* two companies tied on the current sort metric hold consecutive ranks
C1_Witness ==
    LET sorted == getSortedCompanies
    IN  /\ Len(sorted) >= 3
        /\ sortColumn # "averageScore"
        /\ \E i \in 1..(Len(sorted) - 1) :
              /\ Tied(sorted[i], sorted[i + 1])
              /\ sorted[i].rank = i
              /\ sorted[i + 1].rank = i + 1

(* C2 *)

\* C2: every adjacent pair of the sorted output is ordered by the metric of the
\* current sort key: non-increasing when the direction is descending,
\* non-decreasing when it is ascending.
C2_SortCorrectness ==
    LET sorted == getSortedCompanies
    IN  \A i \in 1..(Len(sorted) - 1) :
            LET sign == FSign(Metric(sorted[i], sortColumn),
                              Metric(sorted[i + 1], sortColumn))
            IN  IF sortDirection = "desc" THEN sign >= 0 ELSE sign <= 0

\* an ascending sort by a criterion with strictly increasing values
C2_Witness ==
    LET sorted == getSortedCompanies
    IN  /\ sortDirection = "asc"
        /\ sortColumn = "Team"
        /\ Len(sorted) >= 3
        /\ FSign(Metric(sorted[1], sortColumn), Metric(sorted[2], sortColumn)) < 0
        /\ FSign(Metric(sorted[2], sortColumn), Metric(sorted[3], sortColumn)) < 0

(* C3 *)

\* C3: a per-criterion average is the sum of the criterion's scores over the
\* company's records divided by the number of all records of the company, a
\* record without the criterion adding 0 to the sum and 1 to the count. In the
\* table the company is the group of the aggregate; in the detail view it is
\* the records matching the trimmed target name, and the criteria are those of
\* the profile.
C3_CriterionAverage ==
    /\ \A k \in Indices(rankedCompanies) :
          LET s == rankedCompanies[k]
              I == RecordsNamed(s.companyName)
          IN  /\ I # {}
              /\ \A c \in Criteria :
                    IF c \in DOMAIN s.categoryScores
                    THEN s.categoryScores[c] = Frac(CriterionTotal(I, c), Cardinality(I))
                    ELSE \A i \in I : c \notin DOMAIN investments[i].scores
    /\ \A target \in CompanyNames :
          LET I  == RecordsOfCompany(target)
              ci == companyInvestments(investments, target)
          IN  /\ Len(ci) = Cardinality(I)
              /\ I # {} =>
                    \A c \in scoreCategories(ci) :
                        averageScores(ci)[c] = Frac(CriterionTotal(I, c), Cardinality(I))

\* the example of the specification: X{A:10}, X{B:8} gives average A = 10/2
C3_Witness ==
    /\ investments = <<Rec(CompanyA, ScoresTeamOnly), Rec(CompanyA, ScoresMarketOnly)>>
    /\ Len(rankedCompanies) = 1
    /\ rankedCompanies[1].categoryScores["Team"] = FromInt(5)
    /\ averageScores(companyInvestments(investments, CompanyA))["Team"] = FromInt(5)

(* C4 *)

\* C4: the overall average of a company is the arithmetic mean of the values of
\* its own per-criterion average map, in the table (averageScore) and in the
\* detail view (avgInvestmentScore), whenever that map has a value.
C4_OverallIsMeanOfAverages ==
    /\ \A k \in Indices(rankedCompanies) :
          LET s == rankedCompanies[k]
          IN  DOMAIN s.categoryScores # {} =>
                 s.averageScore = MeanOfValues(s.categoryScores)
    /\ \A target \in CompanyNames :
          LET ci == companyInvestments(investments, target)
          IN  (Len(ci) > 0 /\ scoreCategories(ci) # {}) =>
                 avgInvestmentScore(ci) = MeanOfValues(averageScores(ci))

\* a company with sparse records: the table averages Team 5 and Market 4 to
\* 9/2, the detail view averages its one profile criterion to 5
C4_Witness ==
    /\ \E k \in Indices(rankedCompanies) :
          /\ rankedCompanies[k].companyName = CompanyA
          /\ DOMAIN rankedCompanies[k].categoryScores = Criteria
          /\ rankedCompanies[k].categoryScores["Team"] = FromInt(5)
          /\ rankedCompanies[k].categoryScores["Market"] = FromInt(4)
          /\ rankedCompanies[k].averageScore = Frac(9, 2)
    /\ Len(companyInvestments(investments, CompanyA)) = 2
    /\ avgInvestmentScore(companyInvestments(investments, CompanyA)) = FromInt(5)

(* C5 *)

\* C5: the aggregates are keyed by the trimmed company names, one aggregate per
\* distinct trimmed name, so that two records share an aggregate exactly when
\* their trimmed names are equal.
C5_GroupByTrimmedName ==
    LET keys    == {rankedCompanies[k].companyName : k \in Indices(rankedCompanies)}
        trimmed == {Trim(investments[i].companyName) : i \in Indices(investments)}
    IN  /\ keys = trimmed
        /\ Len(rankedCompanies) = Cardinality(trimmed)

(* C6 *)

\* C6: in the table the overall average of a company is the mean of its
\* per-criterion averages over the criteria of its first record (0 when that
\* record has none).
C6_OverallOverFirstRecordKeys ==
    \A k \in Indices(rankedCompanies) :
        LET s    == rankedCompanies[k]
            I    == RecordsNamed(s.companyName)
            keys == DOMAIN investments[FirstRecordIndex(I)].scores
        IN  s.averageScore =
                IF keys = {} THEN Zero
                ELSE FDiv(FSum([c \in keys |-> Metric(s, c)], keys), Cardinality(keys))

(* C7 *)

FirstAppearance(name) == FirstRecordIndex(RecordsNamed(name))

\* C7 as stated: rows tied on the current sort metric are in the order of the
\* first appearance of their companies in the record collection.
C7_TieOrderIsFirstAppearance ==
    LET sorted == getSortedCompanies
    IN  \A i \in Indices(sorted) : \A j \in Indices(sorted) :
            (i < j /\ Tied(sorted[i], sorted[j])) =>
                FirstAppearance(sorted[i].companyName)
                    < FirstAppearance(sorted[j].companyName)

\* the enumeration order of the aggregate map: names that are array indices
\* first, by numeric value, then the other names by first appearance
EnumeratedBefore(a, b) ==
    IF IsArrayIndex(a) /\ IsArrayIndex(b)
    THEN ArrayIndexValue(a) < ArrayIndexValue(b)
    ELSE IF IsArrayIndex(a) \/ IsArrayIndex(b)
         THEN IsArrayIndex(a)
         ELSE FirstAppearance(a) < FirstAppearance(b)

\* C7 (amended): rows tied on the current sort metric are in the enumeration
\* order of the aggregate map, for both directions; for names that are not
\* array indices this is the order of first appearance.
C7_TieOrderIsEnumerationOrder ==
    LET sorted == getSortedCompanies
    IN  \A i \in Indices(sorted) : \A j \in Indices(sorted) :
            (i < j /\ Tied(sorted[i], sorted[j])) =>
                EnumeratedBefore(sorted[i].companyName, sorted[j].companyName)

\* ascending sort, three tied companies: "7" and "10" appeared after CompanyB
\* and in the order "10", "7"
C7_Witness ==
    LET sorted == getSortedCompanies
    IN  /\ sortDirection = "asc"
        /\ NamesPresent = {CompanyB, Company10, Company7}
        /\ Len(sorted) = 3
        /\ Tied(sorted[1], sorted[2]) /\ Tied(sorted[2], sorted[3])
        /\ FirstAppearance(CompanyB) = 1
        /\ FirstAppearance(Company10) = 2
        /\ FirstAppearance(Company7) = 3
        /\ sorted[1].companyName = Company7
        /\ sorted[2].companyName = Company10
        /\ sorted[3].companyName = CompanyB

(* C8 *)

\* C8: the sort state starts as (averageScore, desc); a click on the column that
\* is the current key flips the direction and keeps the key; a click on another
\* column makes it the key and sets the direction to descending; nothing else
\* changes the sort state.
C8_HandleSort ==
    /\ (sortColumn = "averageScore" /\ sortDirection = "desc")
    /\ [][ (<<sortColumn, sortDirection, lastClick>>' # <<sortColumn, sortDirection, lastClick>>)
            => IF lastClick' = sortColumn
               THEN /\ sortColumn' = sortColumn
                    /\ sortDirection' # sortDirection
                    /\ sortDirection' \in {"asc", "desc"}
               ELSE /\ sortColumn' = lastClick'
                    /\ sortDirection' = "desc" ]_vars

\* an ascending criterion sort: reached by selecting the criterion (which
\* resets to descending after an ascending overall sort) and clicking it again
C8_Witness ==
    /\ sortColumn = "Market"
    /\ sortDirection = "asc"
    /\ lastClick = "Market"

(* C9 *)

\* the evaluation records the store holds for an organization
StoredRecordsOf(orgId) ==
    Filter(InvestmentsCollection,
           {d \in Elements(InvestmentsCollection) : d.organizationId = orgId})

\* C9: once no fetch is in flight (and none has failed), investments is the
\* record collection of the selected organization: the result of a fetch that
\* a newer selection superseded is discarded.
C9_StaleFetchDiscarded ==
    (tasks = {} /\ error = "null" /\ selectedOrgId # "")
        => investments = StoredRecordsOf(selectedOrgId)

(* C10 *)

\* C10: every organization selection (the auto-selection or a handleOrgChange)
\* starts exactly one fetchCompaniesAndInvestments: as many fetches have been
\* started as selections have been made.
C10_OneFetchPerSelection == loadsStarted = selections

-----------------------------------------------------------------------------
(* Vocabulary of the profile properties                                    *)

\* the distinct trimmed company names of the collection
TrimmedNames == {Trim(investments[i].companyName) : i \in Indices(investments)}

\* the company the route parameter names
Target == Trim(decodeURIComponent(companyNameParam))

\* a company's average of a criterion over all its records, an absent score
\* counting 0
CriterionMean(name, c) ==
    Frac(CriterionTotal(RecordsOfCompany(name), c),
         Cardinality(RecordsOfCompany(name)))

\* n stands before m in the descending order of criterion c: a greater
\* average, or the same average and an earlier first record
Ahead(n, m, c) ==
    LET d == FSign(CriterionMean(n, c), CriterionMean(m, c))
    IN  \/ d > 0
        \/ /\ d = 0
           /\ FirstRecordIndex(RecordsOfCompany(n)) < FirstRecordIndex(RecordsOfCompany(m))

\* the criteria of a company's first record
FirstRecordCriteria(name) ==
    DOMAIN investments[FirstRecordIndex(RecordsOfCompany(name))].scores

\* the profile of a company of the current collection
ProfileOf(name) == CompanyDetailView(investments, name)

\* the companies whose profile shows rank 1 for criterion c
RankOneCompanies(c) ==
    {n \in TrimmedNames :
        /\ c \in DOMAIN ProfileOf(n).companyRankings
        /\ ProfileOf(n).companyRankings[c].rank = 1}

(* C11 *)

\* C11: when the target company has at least one matching record, a profile
\* is rendered and every per-criterion rank in it lies in 1..N, N being the
\* number of distinct trimmed company names of the collection.
C11_RankInRange ==
    RecordsOfCompany(Target) # {}
        => /\ detailView.kind = "profile"
           /\ \A c \in DOMAIN detailView.companyRankings :
                  detailView.companyRankings[c].rank \in 1..Cardinality(TrimmedNames)

\* three companies, the target is last for Team and first for Market
C11_Witness ==
    /\ Cardinality(TrimmedNames) = 3
    /\ detailView.kind = "profile"
    /\ DOMAIN detailView.companyRankings = Criteria
    /\ detailView.companyRankings["Team"].rank = 3
    /\ detailView.companyRankings["Market"].rank = 1

(* C12 *)

\* C12 (as stated): for every criterion that some company's profile shows,
\* exactly one company of the collection has rank 1 for it.
C12_ExactlyOneRankOne ==
    \A c \in Criteria :
        (\E n \in TrimmedNames : c \in DOMAIN ProfileOf(n).companyRankings)
            => Cardinality(RankOneCompanies(c)) = 1

\* C12 (amended): for every criterion, the only company that can have rank 1
\* is the one standing first in the criterion's descending order, and it has
\* rank 1 exactly when the criterion is on its first record; otherwise no
\* profile shows rank 1 for that criterion.
C12_RankOneIsLeaderIfProfiled ==
    \A c \in Criteria :
        \A n \in TrimmedNames :
            (\A m \in TrimmedNames \ {n} : Ahead(n, m, c))
                => RankOneCompanies(c) =
                       (IF c \in FirstRecordCriteria(n) THEN {n} ELSE {})

\* CompanyA leads Team but its first record has no Team score, company 7 is
\* shown rank 2 of 2 for Team, and nobody is shown rank 1
C12_Witness ==
    /\ TrimmedNames = {CompanyA, Company7}
    /\ RankOneCompanies("Team") = {}
    /\ Target = Company7
    /\ detailView.kind = "profile"
    /\ "Team" \in DOMAIN detailView.companyRankings
    /\ detailView.companyRankings["Team"].rank = 2

(* C13 *)

\* C13: when no record's trimmed company name equals the trimmed target name
\* (the empty collection included) the view is the 'No Data Found' result,
\* which carries no averages and no ranks; and that result is given in no
\* other case.
C13_NoDataWhenNoMatch ==
    /\ RecordsOfCompany(Target) = {} => detailView = [kind |-> "noData"]
    /\ detailView.kind = "noData" => RecordsOfCompany(Target) = {}

\* records of other companies exist, none of the target
C13_Witness ==
    /\ Len(investments) = MaxRecords
    /\ Target = <<"Ghost">>
    /\ detailView = [kind |-> "noData"]

(* C14 *)

\* C14: whenever the record collection is empty, at the start or after it held
\* records, the summaries are the empty array and so is the sorted output,
\* and the aggregation has raised no error.
C14_EmptyCollectionEmptyResult ==
    investments = <<>>
        => /\ rankedCompanies = <<>>
           /\ getSortedCompanies = <<>>
           /\ tableFailure = "none"

\* the collection is empty after a criterion header of a non-empty table was
\* clicked twice
C14_Witness ==
    /\ investments = <<>>
    /\ sortColumn = "Team"
    /\ sortDirection = "asc"
    /\ rankedCompanies = <<>>

(* C15 *)

\* C15: a company without any criterion has overall average 0, and no
\* overall or per-criterion average shown by the table or by the detail view
\* of a company of the collection is NaN.
C15_NoNaNAndZeroForNoCriteria ==
    /\ \A k \in Indices(rankedCompanies) :
           LET row == rankedCompanies[k]
           IN  /\ ~IsNaN(row.averageScore)
               /\ \A c \in DOMAIN row.categoryScores : ~IsNaN(row.categoryScores[c])
               /\ DOMAIN row.categoryScores = {} => row.averageScore = Zero
    /\ \A n \in NamesPresent :
           LET ci == companyInvestments(investments, n)
           IN  /\ ~IsNaN(avgInvestmentScore(ci))
               /\ \A c \in scoreCategories(ci) : ~IsNaN(averageScores(ci)[c])
               /\ scoreCategories(ci) = {} => avgInvestmentScore(ci) = Zero

\* CompanyB has one record with an empty score mapping: its row and its
\* profile show 0, next to a company with scores
C15_Witness ==
    /\ Len(rankedCompanies) = 2
    /\ \E k \in Indices(rankedCompanies) :
           /\ rankedCompanies[k].companyName = CompanyB
           /\ DOMAIN rankedCompanies[k].categoryScores = {}
           /\ rankedCompanies[k].averageScore = Zero
    /\ scoreCategories(companyInvestments(investments, CompanyB)) = {}
    /\ avgInvestmentScore(companyInvestments(investments, CompanyB)) = Zero

(* C16 *)

\* C16: the aggregation never ends in an error, whatever fields the records
\* of the collection lack.
C16_AggregatorNeverFails == tableFailure = "none"

(* C17 *)

\* C17: rankedCompanies is the aggregation of the current record collection
\* and of nothing else, whatever collections came before: it has one summary
\* for each company name of the current records and no other.
C17_FunctionOfCurrentCollection ==
    /\ rankedCompanies = Summaries(investments)
    /\ {rankedCompanies[k].companyName : k \in Indices(rankedCompanies)} = NamesPresent
    /\ Len(rankedCompanies) = Cardinality(NamesPresent)

\* the only record left has no Market score, while the sort key Market shows
\* that an earlier collection had one
C17_Witness ==
    /\ investments = <<Rec(CompanyA, ScoresTeamOnly)>>
    /\ sortColumn = "Market"
    /\ Len(rankedCompanies) = 1
    /\ DOMAIN rankedCompanies[1].categoryScores = {"Team"}

(* C18 *)

\* C18: in a profile, the rank of each criterion is 1 plus the number of
\* distinct trimmed company names of the whole collection that stand before
\* the target in the criterion's descending order, a company without a score
\* for the criterion taking part with the average 0; and totalCompanies is
\* the number of distinct trimmed company names.
C18_RankAmongAllCompanies ==
    detailView.kind = "profile" =>
        \A c \in DOMAIN detailView.companyRankings :
            /\ detailView.companyRankings[c].rank =
                   1 + Cardinality({m \in TrimmedNames \ {Target} : Ahead(m, Target, c)})
            /\ detailView.companyRankings[c].totalCompanies = Cardinality(TrimmedNames)

\* CompanyA has no Team score and is first in the collection; company 7 has
\* the Team score 0 and is ranked behind it, second of two
C18_Witness ==
    /\ investments = <<Rec(CompanyA, ScoresMarketOnly), Rec(Company7, Scores04)>>
    /\ Target = Company7
    /\ detailView.kind = "profile"
    /\ detailView.companyRankings["Team"].rank = 2
    /\ detailView.companyRankings["Team"].totalCompanies = 2

(* C19 *)

\* C19: under a criterion sort key a company without a value for the
\* criterion is placed as a company with value 0: after every company with a
\* positive value when descending, before it when ascending, and never
\* separated from the other companies without a value by such a company;
\* under the key 'averageScore' the rows are ordered by overall average.
C19_MissingCriterionComparesAsZero ==
    LET sorted == getSortedCompanies
    IN  /\ sortColumn \in Criteria =>
               \A i, j \in Indices(sorted) :
                   ( /\ sortColumn \notin DOMAIN sorted[i].categoryScores
                     /\ sortColumn \in DOMAIN sorted[j].categoryScores
                     /\ FSign(sorted[j].categoryScores[sortColumn], Zero) > 0 )
                       => IF sortDirection = "desc" THEN j < i ELSE i < j
        /\ sortColumn = "averageScore" =>
               \A i, j \in Indices(sorted) :
                   i < j =>
                       LET sign == FSign(sorted[i].averageScore, sorted[j].averageScore)
                       IN  IF sortDirection = "desc" THEN sign >= 0 ELSE sign <= 0

\* ascending by Team: a company without a Team value, whose overall average is
\* the greater one, stands before a company with a Team value
C19_Witness ==
    LET sorted == getSortedCompanies
    IN  /\ sortColumn = "Team"
        /\ sortDirection = "asc"
        /\ Len(sorted) = 2
        /\ "Team" \notin DOMAIN sorted[1].categoryScores
        /\ "Team" \in DOMAIN sorted[2].categoryScores
        /\ FSign(sorted[1].averageScore, sorted[2].averageScore) > 0

(* C20 *)

\* no stored evaluation record is matched by any of the four matchers of the
\* fetchInvestments call t
NoTierMatches(t) ==
    \A d \in Elements(InvestmentsCollection) :
        /\ d.organization # t.orgName
        /\ toLowerCase(Trim(d.organization)) # toLowerCase(Trim(t.orgName))
        /\ d.organizationId # t.selectedOrgId
        /\ \A i \in 1..Len(t.companyList) :
               toLowerCase(Trim(d.companyName)) # toLowerCase(Trim(t.companyList[i].name))

\* C20: a fetchInvestments call that ends without a failed query and for
\* which no matcher matches any record leaves investments empty, error as it
\* was and loading false.
C20_NoMatchGivesEmptyCollection ==
    [][ ( /\ lastDone' # lastDone
          /\ lastDone'[1].ok
          /\ NoTierMatches(lastDone'[1].task) )
            => ( /\ investments' = <<>>
                 /\ error' = error
                 /\ loading' = FALSE ) ]_vars

\* the fetch for the organization without records has ended: nothing is
\* shown as an error
C20_Witness ==
    /\ lastDone # <<>>
    /\ lastDone[1].ok
    /\ lastDone[1].task.selectedOrgId = "org3"
    /\ NoTierMatches(lastDone[1].task)
    /\ selectedOrgId = "org3"
    /\ tasks = {}
    /\ investments = <<>>
    /\ error = "null"
    /\ loading = FALSE

(* C21 *)

\* the stored records each matcher of the call t selects: 1 the exact
\* organization name, 2 the trimmed, lower-cased name, 3 the organizationId,
\* 4 the membership of the company name in the company list
TierMatches(t, k) ==
    {d \in Elements(InvestmentsCollection) :
        CASE k = 1 -> d.organization = t.orgName
          [] k = 2 -> toLowerCase(Trim(d.organization)) = toLowerCase(Trim(t.orgName))
          [] k = 3 -> d.organizationId = t.selectedOrgId
          [] k = 4 -> \E i \in 1..Len(t.companyList) :
                          toLowerCase(Trim(d.companyName))
                              = toLowerCase(Trim(t.companyList[i].name))}

\* the first matcher in the order 1, 2, 3, 4 that selects a record; 4 when
\* none does
DecidingTier(t) ==
    IF \E k \in 1..3 : TierMatches(t, k) # {}
    THEN CHOOSE k \in 1..3 :
             /\ TierMatches(t, k) # {}
             /\ \A j \in 1..(k - 1) : TierMatches(t, j) = {}
    ELSE 4

\* C21: a fetchInvestments call that ends without a failed query stores
\* exactly the records of the first matcher, in the order exact name,
\* trimmed/lower-cased name, organizationId, company-name membership, that
\* selects any record; what a later matcher would select is left out.
C21_FirstNonEmptyTierDecides ==
    [][ (lastDone' # lastDone /\ lastDone'[1].ok)
            => LET t == lastDone'[1].task
               IN  /\ Elements(investments') = TierMatches(t, DecidingTier(t))
                   /\ investments' =
                          Filter(InvestmentsCollection, TierMatches(t, DecidingTier(t))) ]_vars

\* the organizationId matcher decided, the name matchers selected nothing,
\* and the company-name matcher would have selected a record that is left out
C21_Witness ==
    /\ lastDone # <<>>
    /\ lastDone[1].ok
    /\ tasks = {}
    /\ DecidingTier(lastDone[1].task) = 3
    /\ TierMatches(lastDone[1].task, 4) \ TierMatches(lastDone[1].task, 3) # {}
    /\ Elements(investments) = TierMatches(lastDone[1].task, 3)

(* C22 *)

\* C22: in a profile, the per-criterion averages and the per-criterion ranks
\* are both given for exactly the criteria of the target company's first
\* record in the collection.
C22_ProfileDomainIsFirstRecordCriteria ==
    detailView.kind = "profile"
        => /\ DOMAIN detailView.averageScores = FirstRecordCriteria(Target)
           /\ DOMAIN detailView.companyRankings = FirstRecordCriteria(Target)

\* the target's first record has only Market, a later one has Team
C22_Witness ==
    /\ Target = CompanyA
    /\ Len(investments) >= 2
    /\ investments[1] = Rec(CompanyA, ScoresMarketOnly)
    /\ \E i \in RecordsOfCompany(Target) : "Team" \in DOMAIN investments[i].scores
    /\ detailView.kind = "profile"
    /\ DOMAIN detailView.averageScores = {"Market"}
    /\ DOMAIN detailView.companyRankings = {"Market"}

(* C23 *)

\* the records of the scenario: CompanyA scored by two judges, CompanyB by one
ScenarioRecords ==
    << Rec(CompanyA, Scores86), Rec(CompanyA, Scores68), Rec(CompanyB, Scores99) >>

\* C23: for the scenario's records the summaries are CompanyA with Team 7,
\* Market 7, overall 7 and CompanyB with Team 9, Market 9, overall 9, and the
\* output sorted descending by overall is (1, CompanyB, 9), (2, CompanyA, 7).
C23_EndToEndScenario ==
    investments = ScenarioRecords
        => /\ {[companyName |-> rankedCompanies[k].companyName,
                averageScore |-> rankedCompanies[k].averageScore,
                categoryScores |-> rankedCompanies[k].categoryScores]
                  : k \in Indices(rankedCompanies)}
                = { [companyName |-> CompanyA, averageScore |-> FromInt(7),
                     categoryScores |-> [c \in {"Team", "Market"} |-> FromInt(7)]],
                    [companyName |-> CompanyB, averageScore |-> FromInt(9),
                     categoryScores |-> [c \in {"Team", "Market"} |-> FromInt(9)]] }
           /\ Len(rankedCompanies) = 2
           /\ (sortColumn = "averageScore" /\ sortDirection = "desc")
                 => [k \in Indices(getSortedCompanies) |->
                        <<getSortedCompanies[k].rank,
                          getSortedCompanies[k].companyName,
                          getSortedCompanies[k].averageScore>>]
                      = << <<1, CompanyB, FromInt(9)>>, <<2, CompanyA, FromInt(7)>> >>

\* the scenario's records under the initial sort, CompanyB first
C23_Witness ==
    /\ investments = ScenarioRecords
    /\ sortColumn = "averageScore"
    /\ sortDirection = "desc"
    /\ Len(getSortedCompanies) = 2
    /\ getSortedCompanies[1].companyName = CompanyB
    /\ getSortedCompanies[2].rank = 2

(* C24 *)

\* C24: every row of the table shows the overall average that the detail
\* view computes for the row's company.
C24_TableOverallEqualsDetailOverall ==
    \A k \in Indices(rankedCompanies) :
        rankedCompanies[k].averageScore
            = avgInvestmentScore(companyInvestments(investments,
                                                    rankedCompanies[k].companyName))

(* C25 *)

\* the criterion keys present in any record of the collection
CriteriaPresent == UNION {DOMAIN investments[i].scores : i \in Indices(investments)}

\* C25: the criterion columns of the table are the criterion keys present in
\* any record of the current collection.
C25_ColumnsAreAllCriteriaPresent == displayCategories = CriteriaPresent

(* C26 *)

\* the rank of the row of a company in the table sorted descending by a
\* criterion
TableRankBy(companyName, c) ==
    LET sorted == SortedCompanies(rankedCompanies, c, "desc")
    IN  sorted[CHOOSE k \in Indices(sorted) : sorted[k].companyName = companyName].rank

\* C26: for every row of the table and every criterion of the profile of the
\* row's company, the rank of the profile is the rank of the row when the
\* table is sorted descending by that criterion.
C26_DetailRankEqualsTableRank ==
    \A k \in Indices(rankedCompanies) :
        LET name == rankedCompanies[k].companyName
            rankings == companyRankings(investments, Trim(name))
        IN  \A c \in DOMAIN rankings : rankings[c].rank = TableRankBy(name, c)

(* C27 *)

\* the routes are rendered: !loading && !error
RoutesRendered == ~loading /\ error = "null"

\* C27: while a companies/investments fetch for the selected organization is
\* in flight, loading is true, so that the routes are not rendered.
C27_LoadingWhileFetchInFlight ==
    (\E t \in tasks : /\ t.kind \in {"companies", "investments"}
                      /\ t.selectedOrgId = selectedOrgId)
        => (loading /\ ~RoutesRendered)

(* C28 *)

\* C28: once no fetch is in flight any more, loading becomes false.
C28_LoadingEventuallyFalse == (tasks = {}) ~> (loading = FALSE)

(* C29 *)

\* C29: once error is set it is never reset to null, by no selection and no
\* fetch, so the routes are not rendered from then on.
C29_ErrorNeverCleared ==
    [][ error # "null" => (error' # "null" /\ ~RoutesRendered') ]_vars

\* after a failure another organization was selected and its records were
\* fetched: the error is still there
C29_Witness ==
    /\ error # "null"
    /\ selections >= 2
    /\ tasks = {}
    /\ lastDone # <<>>
    /\ lastDone[1].ok
    /\ lastDone[1].task.selectedOrgId = selectedOrgId
    /\ Len(investments) > 0
    /\ loading = FALSE

(* C30 *)

\* an organizations fetch ends in this step
OrgsFetchEnds == \E t \in tasks : t.kind = "orgs" /\ t \notin tasks'

\* C30: selectedOrgData is null or the organization with the id
\* selectedOrgId; an organizations fetch that ends while an organization is
\* selected changes neither, and the one that ends while none is selected
\* can only select the first organization of the list it fetched.
C30_AutoSelectOnlyWhenNoneSelected ==
    /\ [](selectedOrgData = <<>> \/ selectedOrgData[1].id = selectedOrgId)
    /\ [][ OrgsFetchEnds =>
              IF selectedOrgId # ""
              THEN selectedOrgId' = selectedOrgId /\ selectedOrgData' = selectedOrgData
              ELSE \/ selectedOrgId' = "" /\ selectedOrgData' = <<>>
                   \/ /\ Len(organizations') > 0
                      /\ selectedOrgId' = organizations'[1].id
                      /\ selectedOrgData' = <<organizations'[1]>> ]_vars

\* the second organization was chosen by hand and every fetch has ended,
\* the organizations fetch started by that choice included
C30_Witness ==
    /\ selectedOrgId = "org2"
    /\ selectedOrgData = <<OrgBeta>>
    /\ organizations = OrganizationsCollection
    /\ selections = 2
    /\ tasks = {}

====
